---- MODULE Spec2Model ----
(***************************************************************************)
(* Model of prism::Model (src/src/model/model.cpp): the load / destroy     *)
(* life cycle, the descriptor decoder, the two geometry decoders and the   *)
(* mid-format export entry point.                                          *)
(*                                                                         *)
(* Model::load is a sequence of calls; `pc` is the position inside it, so  *)
(* that the state between two calls of load can be observed.  Each callee  *)
(* (destroy, loadDescriptor, loadModel, the prefab block, loadCollision)   *)
(* is one action that models the whole callee.                             *)
(***************************************************************************)
EXTENDS Integers, Sequences, FiniteSets, TLC

(***************************************************************************)
(* Bounds of the model.                                                    *)
(***************************************************************************)
MaxLoads == 2
MaxPieces == 2
MaxLooks == 2
MaxVariants == 2

(***************************************************************************)
(* Program constants.                                                      *)
(***************************************************************************)
\* Vertex::BONE_COUNT, the capacity of a vertex's bone arrays.
BONE_COUNT == 8
\* pmd_header_t::SUPPORTED_VERSION
PMD_SUPPORTED_VERSION == 4
\* the version bytes of the two geometry schemas: MAKEFOURCC(0x13, ...) and
\* MAKEFOURCC(0x14, ...)
PMG_VERSION_0x13 == 19
PMG_VERSION_0x14 == 20

(***************************************************************************)
(* Small helpers: std::string, std::vector.                                *)
(***************************************************************************)
Min(a, b) == IF a < b THEN a ELSE b

RECURSIVE SumSeq(_)
SumSeq(s) == IF s = <<>> THEN 0 ELSE Head(s) + SumSeq(Tail(s))

\* std::vector<T>::resize(n): the first n elements are kept, new ones are
\* value-initialised.
Resize(v, n, dflt) == [i \in 1..n |-> IF i <= Len(v) THEN v[i] ELSE dflt]

\* std::string::rfind(c): the 0-based position of the last c, or -1 (npos).
RFind(s, c) ==
  LET hits == {i \in 1..Len(s) : SubSeq(s, i, i) = c}
  IN  IF hits = {} THEN -1 ELSE (CHOOSE i \in hits : \A k \in hits : k <= i) - 1

\* std::string::substr(pos, count) with 0-based pos; count is a size_t, so a
\* negative count wraps to a huge one and the rest of the string is taken.
SubStr(s, pos, count) ==
  IF count < 0 THEN SubSeq(s, pos + 1, Len(s))
  ELSE SubSeq(s, pos + 1, Min(Len(s), pos + count))

\* std::string::substr(pos)
SubStrFrom(s, pos) == SubSeq(s, pos + 1, Len(s))

\* fmt::sprintf("%04i", j) for 0 <= j < 10000
Fmt04(j) ==
  LET d(k) == SubSeq("0123456789", k + 1, k + 1)
  IN  d((j \div 1000) % 10) \o d((j \div 100) % 10) \o d((j \div 10) % 10) \o d(j % 10)

\* directory(filePath): the path up to its last separator.
Directory(p) == SubStr(p, 0, RFind(p, "/"))

(***************************************************************************)
(* The descriptor file (.pmd) and Model::loadDescriptor.                   *)
(***************************************************************************)
\* Material files of the file system, by resolved path: the texture names a
\* Material::load of that path yields.
TexturesOf(path) ==
  CASE path = "/material/wood.mat" -> <<"/material/tex/wood.tobj", "/material/tex/wood_nm.tobj">>
    [] path = "/a/paint.mat"       -> <<"/a/paint.tobj">>
    [] path = "/b/paint.mat"       -> <<"red.tobj">>
    [] OTHER                       -> <<>>

\* The material path strings a descriptor stores, and the one stored for look
\* i, slot j: the looks of one slot name different material files.
MaterialPaths == <<"/material/wood.mat", "paint.mat", "bare.mat">>
MaterialPathAt(shift, i, j) == MaterialPaths[((i + j + shift) % 3) + 1]

\* The attribute-definition table (pmd_attrib_def_t) and the value pool of a
\* descriptor: type 0 is the integer type, m_offset is the byte offset of the
\* definition's value inside one variant's block of the pool.
AttribDefs ==
  << [m_name |-> "visible", m_type |-> 0, m_offset |-> 0],
     [m_name |-> "lod",     m_type |-> 1, m_offset |-> 4],
     [m_name |-> "collide", m_type |-> 0, m_offset |-> 8] >>
AttribsValuesSize == 3 * 4
\* pmd_attrib_link_t of part j: the [m_from, m_to) range into AttribDefs.
AttribLinks == << [m_from |-> 0, m_to |-> 2], [m_from |-> 2, m_to |-> 3] >>
\* The 32-bit value stored at byte offset `off` of the value pool.
PoolValueAt(off) == 100 + off

MaterialCounts == {1, 2}
DescriptorPartCounts == {1, 2}

\* The descriptor files a load can meet: none, one of an unsupported version,
\* and the well-formed ones.
PmdMissing == [opens |-> FALSE, m_version |-> 0, m_look_count |-> 0, m_material_count |-> 0,
               shift |-> 0, m_variant_count |-> 0, m_part_count |-> 0]
PmdBadVersion == [PmdMissing EXCEPT !.opens = TRUE, !.m_version = PMD_SUPPORTED_VERSION + 1]
PmdOf(lc, mc, vc, pc) ==
  [opens |-> TRUE, m_version |-> PMD_SUPPORTED_VERSION, m_look_count |-> lc,
   m_material_count |-> mc, shift |-> IF mc = 1 THEN 2 ELSE 0,
   m_variant_count |-> vc, m_part_count |-> pc]
PmdFiles ==
  {PmdMissing, PmdBadVersion}
  \cup {PmdOf(lc, mc, vc, pc) :
        lc \in 0..MaxLooks, mc \in MaterialCounts, vc \in 0..MaxVariants,
        pc \in DescriptorPartCounts}
\* Two of them, for the runs that vary the geometry file.
PmdFilesFew == {PmdMissing, PmdOf(1, 2, 1, 2)}
\* A few of them, for the runs that vary neither file much.
PmdFilesSome == {PmdMissing, PmdBadVersion, PmdOf(1, 1, 2, 1), PmdOf(2, 2, 1, 2)}

\* Default-constructed Material, Look, Variant, Variant::Part; a
\* Variant::Attribute constructed from its name alone.
MaterialDefault == [m_file |-> "", m_textures |-> <<>>, m_alias |-> ""]
LookDefault == [m_name |-> "", m_materials |-> <<>>]
VariantPartDefault == [m_part |-> -1, m_attributes |-> <<>>]
VariantDefault == [m_name |-> "", m_parts |-> <<>>]
AttributeNew(name) == [m_name |-> name, m_type |-> "DEFAULT", m_intValue |-> 0]

\* Material::load(path) of the collaborator: the material now describes that
\* file.
MaterialLoad(mat, path) == [mat EXCEPT !.m_file = path, !.m_textures = TexturesOf(path)]

\* The alias of a first-look material at slot j (lines 613-627).
GeneratedAlias(mat, j) ==
  IF Len(mat.m_textures) > 0
  THEN LET t0 == mat.m_textures[1]
           t1 == SubStr(t0, 0, Len(t0) - 5)
           lastSlash == RFind(t1, "/")
           t2 == IF lastSlash # -1 THEN SubStrFrom(t1, lastSlash + 1) ELSE t1
       IN  "mat_" \o Fmt04(j) \o "_" \o t2
  ELSE "mat_" \o Fmt04(j)

\* The slot loop body with the alias of every look generated from that look's
\* own material, instead of copied from the first look.
LoadMaterialSlotOwnAlias(file, dir, looks, i, j) ==
  LET materialPath == MaterialPathAt(file.shift, i, j)
      resolved == IF SubSeq(materialPath, 1, 1) = "/" THEN materialPath
                  ELSE dir \o "/" \o materialPath
      loadedMat == MaterialLoad(looks[i + 1].m_materials[j + 1], resolved)
  IN  [looks EXCEPT ![i + 1].m_materials[j + 1] =
                      [loadedMat EXCEPT !.m_alias = GeneratedAlias(loadedMat, j)]]

\* The body of the slot loop for look i, slot j (0-based), on the looks array
\* as it is at that point.
LoadMaterialSlot(file, dir, looks, i, j) ==
  LET materialPath == MaterialPathAt(file.shift, i, j)
      resolved == IF SubSeq(materialPath, 1, 1) = "/" THEN materialPath
                  ELSE dir \o "/" \o materialPath
      loadedMat == MaterialLoad(looks[i + 1].m_materials[j + 1], resolved)
      alias == IF i = 0 THEN GeneratedAlias(loadedMat, j)
               ELSE looks[1].m_materials[j + 1].m_alias
  IN  [looks EXCEPT ![i + 1].m_materials[j + 1] = [loadedMat EXCEPT !.m_alias = alias]]

RECURSIVE LoadMaterialSlots(_, _, _, _, _)
LoadMaterialSlots(file, dir, looks, i, j) ==
  IF j >= file.m_material_count THEN looks
  ELSE LoadMaterialSlots(file, dir, LoadMaterialSlot(file, dir, looks, i, j), i, j + 1)

\* The look loop from look i on (lines 598-634).
RECURSIVE LoadLooks(_, _, _, _)
LoadLooks(file, dir, looks, i) ==
  IF i >= Len(looks) THEN looks
  ELSE LET named == [looks EXCEPT ![i + 1].m_name = "look" \o Fmt04(i),
                                  ![i + 1].m_materials =
                                      Resize(looks[i + 1].m_materials, file.m_material_count,
                                             MaterialDefault)]
       IN  LoadLooks(file, dir, LoadMaterialSlots(file, dir, named, i, 0), i + 1)

\* One attribute definition k of variant i (lines 652-665): the switch sets
\* type and value for the integer type only; the push_back follows the switch.
LoadAttribute(i, k) ==
  LET attribDef == AttribDefs[k + 1]
      attribValue == PoolValueAt(attribDef.m_offset + i * AttribsValuesSize)
      attrib == AttributeNew(attribDef.m_name)
  IN  IF attribDef.m_type = 0
      THEN [attrib EXCEPT !.m_type = "INT", !.m_intValue = attribValue]
      ELSE attrib

\* The attributes part j of variant i holds after its definition loop: the
\* ones it held before, then one per definition of [m_from, m_to).
LoadPartAttributes(attributes, i, j) ==
  LET attribLink == AttribLinks[j + 1]
  IN  attributes \o [n \in 1..(attribLink.m_to - attribLink.m_from) |->
                        LoadAttribute(i, attribLink.m_from + n - 1)]

\* The body of the variant loop for variant i (lines 640-667).
LoadVariant(file, variant, i) ==
  LET parts == Resize(variant.m_parts, file.m_part_count, VariantPartDefault)
  IN  [m_name |-> "variant" \o Fmt04(i),
       m_parts |-> [j \in 1..file.m_part_count |->
                      [m_part |-> j - 1,
                       m_attributes |-> LoadPartAttributes(parts[j].m_attributes, i, j - 1)]]]

\* Model::loadDescriptor on the members it writes; ok is its return value.
loadDescriptor(file, dir, materialCount, looks, variants) ==
  IF ~file.opens \/ file.m_version # PMD_SUPPORTED_VERSION
  THEN [ok |-> FALSE, materialCount |-> materialCount, looks |-> looks, variants |-> variants]
  ELSE LET resizedLooks == Resize(looks, file.m_look_count, LookDefault)
           resizedVariants == Resize(variants, file.m_variant_count, VariantDefault)
       IN  [ok |-> TRUE,
            materialCount |-> file.m_material_count,
            looks |-> LoadLooks(file, dir, resizedLooks, 0),
            variants |-> [i \in 1..file.m_variant_count |->
                            LoadVariant(file, resizedVariants[i], i - 1)]]

(***************************************************************************)
(* The geometry file (.pmg): header, piece records and the byte buffer.    *)
(***************************************************************************)
\* sizeof of the stream element types.
SizeofFloat3 == 3 * 4
SizeofTangent == 4 * 4
SizeofFloat2 == 2 * 4
SizeofU32 == 4
SizeofU16 == 2
\* bytes per pmg_triangle_t / pmg_index_t: three 16-bit indices
SizeofTriangle == 3 * SizeofU16

\* MAKEFOURCC(a, b, c, d): a is the least significant byte.
MAKEFOURCC(a, b, c, d) == a + 256 * b + 65536 * c + 16777216 * d

\* The bytes of piece p's records start at PieceBase(p); the header occupies
\* the bytes below PieceBase(0).
PieceSpan == 4 * 256
PieceBase(p) == PieceSpan * (p + 1)
\* Where, inside its span, a skinned version-1 piece keeps its bind indices,
\* and after them its bone and weight tables and its triangles.
BindAt == 2 * 256

\* What a piece of a file holds: vertex and edge counts, the version-1 bone
\* count, and which streams it has (uv is the number of texcoord channels,
\* 0 for no texcoord stream; skin is the version's skinning data).
PieceKinds ==
  { [m_verts |-> 1, m_edges |-> 2, m_bone_count |-> 0,
     position |-> TRUE, normal |-> TRUE, tangent |-> FALSE, uv |-> 0,
     rgba |-> FALSE, rgba2 |-> FALSE, skin |-> FALSE],
    [m_verts |-> 2, m_edges |-> 3, m_bone_count |-> 2,
     position |-> TRUE, normal |-> TRUE, tangent |-> FALSE, uv |-> 0,
     rgba |-> FALSE, rgba2 |-> FALSE, skin |-> TRUE],
    [m_verts |-> 2, m_edges |-> 7, m_bone_count |-> 0,
     position |-> TRUE, normal |-> FALSE, tangent |-> TRUE, uv |-> 2,
     rgba |-> TRUE, rgba2 |-> TRUE, skin |-> FALSE] }

\* The offset of a stream: `at` when present, the sentinel -1 when absent.
OffsetOf(present, at) == IF present THEN at ELSE -1

\* The number of distinct bind-table entries the vertices of a version-1
\* piece use: vertices 2n and 2n+1 share entry n.
BindIndexOf(j) == j \div 2
BindEntries(verts) == (verts + 1) \div 2

\* pmg_0x13::pmg_piece_t of piece p.  An unskinned piece keeps all its streams
\* in one interleaved pool; a skinned piece keeps position/normal/tangent in
\* one pool and texcoords/colors in a second one after it.
Piece0x13(kind, p) ==
  LET base == PieceBase(p)
      sPos == IF kind.position THEN SizeofFloat3 ELSE 0
      sNor == IF kind.normal THEN SizeofFloat3 ELSE 0
      sTan == IF kind.tangent THEN SizeofTangent ELSE 0
      sUv  == SizeofFloat2 * kind.uv
      sCol == IF kind.rgba THEN SizeofU32 ELSE 0
      sCol2 == IF kind.rgba2 THEN SizeofU32 ELSE 0
      static == sPos + sNor + sTan
      dynamic == sUv + sCol + sCol2
      dynBase == IF kind.m_bone_count = 0 THEN base + static
                 ELSE base + static * kind.m_verts
      bind == base + BindAt
      bones == bind + SizeofU16 * kind.m_verts
      weights == bones + BindEntries(kind.m_verts) * kind.m_bone_count
  IN  [m_verts |-> kind.m_verts, m_edges |-> kind.m_edges,
       m_bone_count |-> kind.m_bone_count, m_material |-> p,
       m_uv_channels |-> kind.uv, m_uv_mask |-> 0,
       m_vert_position_offset |-> OffsetOf(kind.position, base),
       m_vert_normal_offset |-> OffsetOf(kind.normal, base + sPos),
       m_vert_tangent_offset |-> OffsetOf(kind.tangent, base + sPos + sNor),
       m_vert_uv_offset |-> OffsetOf(kind.uv > 0, dynBase),
       m_vert_rgba_offset |-> OffsetOf(kind.rgba, dynBase + sUv),
       m_vert_rgba2_offset |-> OffsetOf(kind.rgba2, dynBase + sUv + sCol),
       m_anim_bind_offset |-> OffsetOf(kind.skin, bind),
       m_anim_bind_bones_offset |-> OffsetOf(kind.skin, bones),
       m_anim_bind_bones_weight_offset |-> OffsetOf(kind.skin, weights),
       m_triangle_offset |-> weights + BindEntries(kind.m_verts) * kind.m_bone_count]

\* pmg_0x14::pmg_piece_t of piece p: one interleaved pool holding every
\* stream, the packed bone indices and weights included.
Piece0x14(kind, p) ==
  LET base == PieceBase(p)
      sPos == IF kind.position THEN SizeofFloat3 ELSE 0
      sNor == IF kind.normal THEN SizeofFloat3 ELSE 0
      sTan == IF kind.tangent THEN SizeofTangent ELSE 0
      sUv  == SizeofFloat2 * kind.uv
      sCol == IF kind.rgba THEN SizeofU32 ELSE 0
      sCol2 == IF kind.rgba2 THEN SizeofU32 ELSE 0
      sSkin == IF kind.skin THEN 2 * SizeofU32 ELSE 0
      streams == sPos + sNor + sTan + sUv + sCol + sCol2
  IN  [m_verts |-> kind.m_verts, m_edges |-> kind.m_edges, m_material |-> p,
       m_texcoord_width |-> kind.uv, m_texcoord_mask |-> 0,
       m_vert_position_offset |-> OffsetOf(kind.position, base),
       m_vert_normal_offset |-> OffsetOf(kind.normal, base + sPos),
       m_vert_tangent_offset |-> OffsetOf(kind.tangent, base + sPos + sNor),
       m_vert_texcoord_offset |-> OffsetOf(kind.uv > 0, base + sPos + sNor + sTan),
       m_vert_color_offset |-> OffsetOf(kind.rgba, base + sPos + sNor + sTan + sUv),
       m_vert_color2_offset |-> OffsetOf(kind.rgba2, base + sPos + sNor + sTan + sUv + sCol),
       m_vert_bone_index_offset |-> OffsetOf(kind.skin, base + streams),
       m_vert_bone_weight_offset |-> OffsetOf(kind.skin, base + streams + SizeofU32),
       m_index_offset |-> base + (streams + sSkin) * kind.m_verts]

\* The 4-byte tags at the start of a geometry file: the two supported ones
\* and one that is neither.
Tag0x13 == <<PMG_VERSION_0x13, 103, 109, 80>>
Tag0x14 == <<PMG_VERSION_0x14, 103, 109, 80>>
TagOther == <<21, 103, 109, 80>>

PieceLists == UNION {[1..n -> PieceKinds] : n \in 0..MaxPieces}
WeightWidths == {0, 3}

PmgMissing == [opens |-> FALSE, tag |-> TagOther, m_bone_count |-> 0, m_locator_count |-> 0,
               m_part_count |-> 0, m_weight_width |-> 0, kinds |-> <<>>]
PmgOf(tag, bc, pc, ww, ks) ==
  [opens |-> TRUE, tag |-> tag, m_bone_count |-> bc, m_locator_count |-> 1,
   m_part_count |-> pc, m_weight_width |-> ww, kinds |-> ks]
PmgBadTag(k) == PmgOf(TagOther, 0, 1, 0, <<k>>)
\* The header shapes: (bone count, part count).
HeaderShapes == {<<0, 1>>, <<2, 2>>}
PmgFiles ==
  {PmgMissing}
  \cup {PmgBadTag(k) : k \in PieceKinds}
  \cup {PmgOf(Tag0x13, h[1], h[2], 0, ks) : h \in HeaderShapes, ks \in PieceLists}
  \cup {PmgOf(Tag0x14, h[1], h[2], ww, ks) :
        h \in HeaderShapes, ww \in WeightWidths, ks \in PieceLists}
\* Two of them, for the runs that vary the descriptor file: one a decoder
\* accepts, and one with an unrecognized tag.
PmgFilesFew ==
  {PmgBadTag(k) : k \in {x \in PieceKinds : x.skin}}
  \cup {PmgOf(Tag0x13, 2, 2, 0, <<k>>) : k \in {x \in PieceKinds : x.skin}}
\* A few of them, for the runs that vary neither file much.
PmgFilesSome ==
  PmgFilesFew \cup {PmgMissing}
  \cup {PmgOf(Tag0x14, 0, 1, 3, <<k>>) : k \in {x \in PieceKinds : x.rgba}}

\* The pieces of the files whose export is examined: a plain one, a skinned one
\* without vertices, a skinned version-1 one whose bone count exceeds the
\* capacity of a vertex's bone arrays, and a skinned one with a tangent, a
\* texcoord channel and both colors beside its position.
PieceKindsExport ==
  { [m_verts |-> 1, m_edges |-> 2, m_bone_count |-> 0,
     position |-> TRUE, normal |-> TRUE, tangent |-> FALSE, uv |-> 0,
     rgba |-> FALSE, rgba2 |-> FALSE, skin |-> FALSE],
    [m_verts |-> 0, m_edges |-> 0, m_bone_count |-> 1,
     position |-> TRUE, normal |-> FALSE, tangent |-> FALSE, uv |-> 0,
     rgba |-> FALSE, rgba2 |-> FALSE, skin |-> TRUE],
    [m_verts |-> 1, m_edges |-> 3, m_bone_count |-> BONE_COUNT + 1,
     position |-> TRUE, normal |-> TRUE, tangent |-> FALSE, uv |-> 0,
     rgba |-> FALSE, rgba2 |-> FALSE, skin |-> TRUE],
    [m_verts |-> 2, m_edges |-> 3, m_bone_count |-> 2,
     position |-> TRUE, normal |-> FALSE, tangent |-> TRUE, uv |-> 1,
     rgba |-> TRUE, rgba2 |-> TRUE, skin |-> TRUE] }
PieceListsExport == UNION {[1..n -> PieceKindsExport] : n \in 0..MaxPieces}
PmgFilesExport ==
  {PmgMissing}
  \cup {PmgOf(Tag0x13, 2, 2, 0, ks) : ks \in PieceListsExport}
  \cup {PmgOf(Tag0x14, 2, 2, ww, ks) : ww \in WeightWidths, ks \in PieceListsExport}

\* The piece records of a file, as its version lays them out.
PieceRecords(file) ==
  [n \in 1..Len(file.kinds) |->
     IF file.tag = Tag0x14 THEN Piece0x14(file.kinds[n], n - 1)
     ELSE Piece0x13(file.kinds[n], n - 1)]

\* The byte at address a of the file's buffer.  The 16-bit bind indices of a
\* skinned version-1 piece hold BindIndexOf(vertex); every other byte of a
\* piece's span follows one pattern, whose every fourth byte stays below 128
\* so that an aligned 32-bit word is below 2^31.
InBindTable(file, p, rel) ==
  /\ file.tag = Tag0x13
  /\ file.kinds[p + 1].skin
  /\ rel >= BindAt
  /\ rel < BindAt + SizeofU16 * file.kinds[p + 1].m_verts
PatternByte(p, rel) ==
  IF rel % 4 = 3 THEN ((233 + rel + 112 * p) % 256) % 128 ELSE (233 + rel + 112 * p) % 256
PieceByte(file, p, rel) ==
  IF p < 0 \/ p >= Len(file.kinds) THEN 0
  ELSE IF InBindTable(file, p, rel)
       THEN (IF (rel - BindAt) % 2 = 0 THEN BindIndexOf((rel - BindAt) \div 2) ELSE 0)
       ELSE PatternByte(p, rel)
BufferByte(file, a) ==
  IF a < 4 THEN file.tag[a + 1] ELSE PieceByte(file, (a \div PieceSpan) - 1, a % PieceSpan)

\* Typed reads at a byte address of the buffer (little-endian host).
ReadU8(file, a) == BufferByte(file, a)
ReadI8(file, a) == LET b == BufferByte(file, a) IN IF b >= 128 THEN b - 256 ELSE b
ReadU16(file, a) == BufferByte(file, a) + 256 * BufferByte(file, a + 1)
ReadU32(file, a) ==
  BufferByte(file, a) + 256 * BufferByte(file, a + 1)
  + 65536 * BufferByte(file, a + 2) + 16777216 * BufferByte(file, a + 3)
\* A 32-bit float is carried as its bit pattern.
ReadFloat(file, a) == ReadU32(file, a)
ReadFloat2(file, a) == <<ReadFloat(file, a), ReadFloat(file, a + 4)>>
ReadFloat3(file, a) == <<ReadFloat(file, a), ReadFloat(file, a + 4), ReadFloat(file, a + 8)>>

(***************************************************************************)
(* The decoded entities and the two geometry decoders.                     *)
(***************************************************************************)
\* Value-initialised elements, as std::vector::resize creates them.
VertexDefault ==
  [m_position |-> <<0, 0, 0>>, m_normal |-> <<0, 0, 0>>, m_tangent |-> <<0, 0, 0, 0>>,
   m_texcoords |-> <<>>, m_color |-> <<0, 0, 0, 0>>, m_color2 |-> <<0, 0, 0, 0>>,
   m_boneIndex |-> [k \in 1..BONE_COUNT |-> 0],
   m_boneWeight |-> [k \in 1..BONE_COUNT |-> 0]]
PieceDefault ==
  [m_index |-> 0, m_texcoordMask |-> 0, m_texcoordCount |-> 0, m_bones |-> 0,
   m_material |-> 0, m_streamCount |-> 0,
   m_position |-> FALSE, m_normal |-> FALSE, m_tangent |-> FALSE, m_texcoord |-> FALSE,
   m_color |-> FALSE, m_color2 |-> FALSE,
   m_vertices |-> <<>>, m_triangles |-> <<>>]
BoneDefault == [m_index |-> 0, m_name |-> "", m_parent |-> 0]
LocatorDefault == [m_index |-> 0, m_name |-> "", m_hookup |-> ""]
PartDefault == [m_name |-> "", m_locatorCount |-> 0, m_locatorId |-> 0,
                m_pieceCount |-> 0, m_pieceId |-> 0]

\* The value a store into an int8_t / uint8_t bone slot keeps.
ToInt8(v) == LET b == v % 256 IN IF b >= 128 THEN b - 256 ELSE b
ToUInt8(v) == v % 256

\* A color channel 2.f * byte / 255.f, carried in units of 1/255.
ColorChannel(byte) == 2 * byte
ReadColor(file, a) ==
  <<ColorChannel(ReadU8(file, a)), ColorChannel(ReadU8(file, a + 1)),
    ColorChannel(ReadU8(file, a + 2)), ColorChannel(ReadU8(file, a + 3))>>

\* The tangent is stored (w, x, y, z), the four floats being read in that order.
ReadTangent(file, a) ==
  <<ReadFloat(file, a), ReadFloat(file, a + 4), ReadFloat(file, a + 8), ReadFloat(file, a + 12)>>

\* The bone, part and locator loops, common to both versions (lines 184-229 and
\* 392-437): the records are copied field for field.
DecodeBones(bones, n) ==
  [i \in 1..n |-> [m_index |-> i - 1, m_name |-> "bone" \o Fmt04(i - 1), m_parent |-> i - 2]]
DecodeParts(parts, file) ==
  [i \in 1..file.m_part_count |->
     [m_name |-> "part" \o Fmt04(i - 1), m_locatorCount |-> IF i = 1 THEN file.m_locator_count ELSE 0,
      m_locatorId |-> 0, m_pieceCount |-> IF i = 1 THEN Len(file.kinds) ELSE 0, m_pieceId |-> 0]]
DecodeLocators(locators, n) ==
  [i \in 1..n |-> [m_index |-> i - 1, m_name |-> "loc" \o Fmt04(i - 1), m_hookup |-> ""]]

\* The triangle loop (lines 361-367 and 561-567).
DecodeTriangles(file, offset, edges) ==
  [j \in 1..(edges \div 3) |->
     <<ReadU16(file, offset + SizeofTriangle * (j - 1)),
       ReadU16(file, offset + SizeofTriangle * (j - 1) + SizeofU16),
       ReadU16(file, offset + SizeofTriangle * (j - 1) + 2 * SizeofU16)>>]

\* Version 1: vertex j of a piece (lines 304-358).
DecodeVertex0x13(file, piece, cur, vert, poolSizeStatic, poolSizeDynamic, j) ==
  LET n == Min(piece.m_bone_count, BONE_COUNT)
      animBind == ReadU16(file, piece.m_anim_bind_offset + j * SizeofU16)
  IN  [m_position |-> IF cur.m_position
                      THEN ReadFloat3(file, piece.m_vert_position_offset + poolSizeStatic * j)
                      ELSE vert.m_position,
       m_normal |-> IF cur.m_normal
                    THEN ReadFloat3(file, piece.m_vert_normal_offset + poolSizeStatic * j)
                    ELSE vert.m_normal,
       m_tangent |-> IF cur.m_tangent
                     THEN ReadTangent(file, piece.m_vert_tangent_offset + poolSizeStatic * j)
                     ELSE vert.m_tangent,
       m_texcoords |-> IF cur.m_texcoord
                       THEN [k \in 1..Len(vert.m_texcoords) \cup 1..piece.m_uv_channels |->
                               IF k <= piece.m_uv_channels
                               THEN ReadFloat2(file, piece.m_vert_uv_offset + poolSizeDynamic * j
                                                     + SizeofFloat2 * (k - 1))
                               ELSE vert.m_texcoords[k]]
                       ELSE vert.m_texcoords,
       m_color |-> IF cur.m_color
                   THEN ReadColor(file, piece.m_vert_rgba_offset + poolSizeDynamic * j)
                   ELSE vert.m_color,
       m_color2 |-> IF cur.m_color2
                    THEN ReadColor(file, piece.m_vert_rgba2_offset + poolSizeDynamic * j)
                    ELSE vert.m_color2,
       m_boneIndex |-> IF piece.m_anim_bind_offset # -1
                       THEN [k \in 1..BONE_COUNT |->
                               IF k <= n
                               THEN ReadI8(file, piece.m_anim_bind_bones_offset
                                                 + animBind * piece.m_bone_count + (k - 1))
                               ELSE -1]
                       ELSE vert.m_boneIndex,
       m_boneWeight |-> IF piece.m_anim_bind_offset # -1
                        THEN [k \in 1..BONE_COUNT |->
                                IF k <= n
                                THEN ReadU8(file, piece.m_anim_bind_bones_weight_offset
                                                  + animBind * piece.m_bone_count + (k - 1))
                                ELSE 0]
                        ELSE vert.m_boneWeight]

\* Version 1: the body of the piece loop for piece i (lines 234-367), on the
\* Piece the resized vector holds at i.
DecodePiece0x13(file, piece, old, i) ==
  LET hasPos == piece.m_vert_position_offset # -1
      hasNor == piece.m_vert_normal_offset # -1
      hasTan == piece.m_vert_tangent_offset # -1
      hasUv == piece.m_vert_uv_offset # -1
      hasCol == piece.m_vert_rgba_offset # -1
      hasCol2 == piece.m_vert_rgba2_offset # -1
      static0 == (IF hasPos THEN SizeofFloat3 ELSE 0) + (IF hasNor THEN SizeofFloat3 ELSE 0)
                 + (IF hasTan THEN SizeofTangent ELSE 0)
      dynamic0 == (IF hasUv THEN SizeofFloat2 * piece.m_uv_channels ELSE 0)
                  + (IF hasCol THEN SizeofU32 ELSE 0) + (IF hasCol2 THEN SizeofU32 ELSE 0)
      poolSizeStatic == IF piece.m_bone_count = 0 THEN static0 + dynamic0 ELSE static0
      poolSizeDynamic == IF piece.m_bone_count = 0 THEN static0 + dynamic0 ELSE dynamic0
      cur == [old EXCEPT
                !.m_index = i,
                !.m_texcoordMask = piece.m_uv_mask,
                !.m_texcoordCount = piece.m_uv_channels,
                !.m_bones = piece.m_bone_count,
                !.m_material = piece.m_material,
                !.m_position = old.m_position \/ hasPos,
                !.m_normal = old.m_normal \/ hasNor,
                !.m_tangent = old.m_tangent \/ hasTan,
                !.m_texcoord = old.m_texcoord \/ hasUv,
                !.m_color = old.m_color \/ hasCol,
                !.m_color2 = old.m_color2 \/ hasCol2,
                !.m_streamCount = old.m_streamCount
                                  + (IF hasPos THEN 1 ELSE 0) + (IF hasNor THEN 1 ELSE 0)
                                  + (IF hasTan THEN 1 ELSE 0)
                                  + (IF hasUv THEN piece.m_uv_channels ELSE 0)
                                  + (IF hasCol THEN 1 ELSE 0) + (IF hasCol2 THEN 1 ELSE 0)]
      verts == Resize(old.m_vertices, piece.m_verts, VertexDefault)
  IN  [cur EXCEPT
         !.m_vertices = [j \in 1..piece.m_verts |->
                           DecodeVertex0x13(file, piece, cur, verts[j], poolSizeStatic,
                                            poolSizeDynamic, j - 1)],
         !.m_triangles = DecodeTriangles(file, piece.m_triangle_offset, piece.m_edges)]

\* The byte extraction with slot 0 taken from the most significant byte.
ShiftMaskBigEndian(word, k) == (word \div (2 ^ (8 * (3 - k)))) % 256

\* (word >> (8 * k)) & 0xff
ShiftMask(word, k) == (word \div (2 ^ (8 * k))) % 256

\* Version 2: the packed bone slots of one vertex (lines 543-558): slots 0..3
\* from the two words, the remaining ones (-1, 0).
PackedBoneIndex(indexes) ==
  [k \in 1..BONE_COUNT |-> IF k <= 4 THEN ToInt8(ShiftMask(indexes, k - 1)) ELSE -1]
PackedBoneWeight(weights) ==
  [k \in 1..BONE_COUNT |-> IF k <= 4 THEN ToUInt8(ShiftMask(weights, k - 1)) ELSE 0]

\* Version 2: vertex j of a piece (lines 502-558).
DecodeVertex0x14(file, piece, cur, vert, poolSize, j) ==
  LET skinned == piece.m_vert_bone_index_offset # -1 /\ piece.m_vert_bone_weight_offset # -1
  IN  [m_position |-> IF cur.m_position
                      THEN ReadFloat3(file, piece.m_vert_position_offset + poolSize * j)
                      ELSE vert.m_position,
       m_normal |-> IF cur.m_normal
                    THEN ReadFloat3(file, piece.m_vert_normal_offset + poolSize * j)
                    ELSE vert.m_normal,
       m_tangent |-> IF cur.m_tangent
                     THEN ReadTangent(file, piece.m_vert_tangent_offset + poolSize * j)
                     ELSE vert.m_tangent,
       m_texcoords |-> IF cur.m_texcoord
                       THEN [k \in 1..Len(vert.m_texcoords) \cup 1..piece.m_texcoord_width |->
                               IF k <= piece.m_texcoord_width
                               THEN ReadFloat2(file, piece.m_vert_texcoord_offset + poolSize * j
                                                     + SizeofFloat2 * (k - 1))
                               ELSE vert.m_texcoords[k]]
                       ELSE vert.m_texcoords,
       m_color |-> IF cur.m_color
                   THEN ReadColor(file, piece.m_vert_color_offset + poolSize * j)
                   ELSE vert.m_color,
       m_color2 |-> IF cur.m_color2
                    THEN ReadColor(file, piece.m_vert_color_offset + poolSize * j)
                    ELSE vert.m_color2,
       m_boneIndex |-> IF skinned
                       THEN PackedBoneIndex(ReadU32(file, piece.m_vert_bone_index_offset
                                                          + poolSize * j))
                       ELSE vert.m_boneIndex,
       m_boneWeight |-> IF skinned
                        THEN PackedBoneWeight(ReadU32(file, piece.m_vert_bone_weight_offset
                                                            + poolSize * j))
                        ELSE vert.m_boneWeight]

\* The version-2 stride without the bytes of the packed bone words.
PoolSize0x14StreamsOnly(piece) ==
  (IF piece.m_vert_position_offset # -1 THEN SizeofFloat3 ELSE 0)
  + (IF piece.m_vert_normal_offset # -1 THEN SizeofFloat3 ELSE 0)
  + (IF piece.m_vert_tangent_offset # -1 THEN SizeofTangent ELSE 0)
  + (IF piece.m_vert_texcoord_offset # -1 THEN SizeofFloat2 * piece.m_texcoord_width ELSE 0)
  + (IF piece.m_vert_color_offset # -1 THEN SizeofU32 ELSE 0)
  + (IF piece.m_vert_color2_offset # -1 THEN SizeofU32 ELSE 0)

\* Version 2: the vertex stride of a piece, the sum of the sizes of the streams
\* its record has (lines 457-500).
PoolSize0x14(piece) ==
  (IF piece.m_vert_position_offset # -1 THEN SizeofFloat3 ELSE 0)
  + (IF piece.m_vert_normal_offset # -1 THEN SizeofFloat3 ELSE 0)
  + (IF piece.m_vert_tangent_offset # -1 THEN SizeofTangent ELSE 0)
  + (IF piece.m_vert_texcoord_offset # -1 THEN SizeofFloat2 * piece.m_texcoord_width ELSE 0)
  + (IF piece.m_vert_color_offset # -1 THEN SizeofU32 ELSE 0)
  + (IF piece.m_vert_color2_offset # -1 THEN SizeofU32 ELSE 0)
  + (IF piece.m_vert_bone_index_offset # -1 THEN 2 * SizeofU32 ELSE 0)

\* Version 2: the body of the piece loop for piece i (lines 442-567).
DecodePiece0x14(file, piece, old, i) ==
  LET hasPos == piece.m_vert_position_offset # -1
      hasNor == piece.m_vert_normal_offset # -1
      hasTan == piece.m_vert_tangent_offset # -1
      hasUv == piece.m_vert_texcoord_offset # -1
      hasCol == piece.m_vert_color_offset # -1
      hasCol2 == piece.m_vert_color2_offset # -1
      poolSize == PoolSize0x14(piece)
      cur == [old EXCEPT
                !.m_index = i,
                !.m_texcoordMask = piece.m_texcoord_mask,
                !.m_texcoordCount = piece.m_texcoord_width,
                !.m_bones = file.m_weight_width,
                !.m_material = piece.m_material,
                !.m_position = old.m_position \/ hasPos,
                !.m_normal = old.m_normal \/ hasNor,
                !.m_tangent = old.m_tangent \/ hasTan,
                !.m_texcoord = old.m_texcoord \/ hasUv,
                !.m_color = old.m_color \/ hasCol,
                !.m_color2 = old.m_color2 \/ hasCol2,
                !.m_streamCount = old.m_streamCount
                                  + (IF hasPos THEN 1 ELSE 0) + (IF hasNor THEN 1 ELSE 0)
                                  + (IF hasTan THEN 1 ELSE 0)
                                  + (IF hasUv THEN piece.m_texcoord_width ELSE 0)
                                  + (IF hasCol THEN 1 ELSE 0) + (IF hasCol2 THEN 1 ELSE 0)]
      verts == Resize(old.m_vertices, piece.m_verts, VertexDefault)
  IN  [cur EXCEPT
         !.m_vertices = [j \in 1..piece.m_verts |->
                           DecodeVertex0x14(file, piece, cur, verts[j], poolSize, j - 1)],
         !.m_triangles = DecodeTriangles(file, piece.m_index_offset, piece.m_edges)]

\* Counter contributions that count edges instead of triangles, and vertices
\* of every piece instead of the skinned ones.
TrianglesAddedPerEdge(piece) == piece.m_edges
SkinVertsAddedAlways(decoded) == Len(decoded.m_vertices)

\* What one piece adds to the aggregate counters (lines 248-254, 449-455).
VertsAdded(piece) == piece.m_verts
TrianglesAdded(piece) == piece.m_edges \div 3
SkinVertsAdded(decoded) == IF decoded.m_bones > 0 THEN Len(decoded.m_vertices) ELSE 0

\* The members a geometry decoder writes.
GeometryOf(ok, pieces, bones, locators, parts, vertCount, triangleCount, skinVertCount) ==
  [ok |-> ok, pieces |-> pieces, bones |-> bones, locators |-> locators, parts |-> parts,
   vertCount |-> vertCount, triangleCount |-> triangleCount, skinVertCount |-> skinVertCount]

\* The members after the loops of a decoder: `decoded` are the pieces the
\* piece loop leaves, `records` the piece records it read.
Decoded(file, g, records, decoded) ==
  GeometryOf(TRUE, decoded,
             DecodeBones(Resize(g.bones, file.m_bone_count, BoneDefault), file.m_bone_count),
             DecodeLocators(Resize(g.locators, file.m_locator_count, LocatorDefault),
                            file.m_locator_count),
             DecodeParts(Resize(g.parts, file.m_part_count, PartDefault), file),
             g.vertCount + SumSeq([n \in 1..Len(records) |-> VertsAdded(records[n])]),
             g.triangleCount + SumSeq([n \in 1..Len(records) |-> TrianglesAdded(records[n])]),
             g.skinVertCount + SumSeq([n \in 1..Len(records) |-> SkinVertsAdded(decoded[n])]))

\* The header check of both decoders (lines 169-172, 377-380).
HeaderAccepted(file, version) ==
  /\ file.tag[1] = version
  /\ file.tag[4] = 80 /\ file.tag[3] = 109 /\ file.tag[2] = 103

\* The piece loop of a decoder on the resized piece vector.
DecodePieces0x13(file, records, resized) ==
  [n \in 1..Len(records) |-> DecodePiece0x13(file, records[n], resized[n], n - 1)]
DecodePieces0x14(file, records, resized) ==
  [n \in 1..Len(records) |-> DecodePiece0x14(file, records[n], resized[n], n - 1)]

\* Model::loadModel0x13 and Model::loadModel0x14 on the geometry members g.
loadModel0x13(file, g) ==
  IF ~HeaderAccepted(file, PMG_VERSION_0x13) THEN [g EXCEPT !.ok = FALSE]
  ELSE Decoded(file, g, PieceRecords(file),
               DecodePieces0x13(file, PieceRecords(file),
                                Resize(g.pieces, Len(file.kinds), PieceDefault)))
loadModel0x14(file, g) ==
  IF ~HeaderAccepted(file, PMG_VERSION_0x14) THEN [g EXCEPT !.ok = FALSE]
  ELSE Decoded(file, g, PieceRecords(file),
               DecodePieces0x14(file, PieceRecords(file),
                                Resize(g.pieces, Len(file.kinds), PieceDefault)))

\* Model::loadModel (lines 136-162): open, read the whole file, dispatch on the
\* first four bytes.
loadModel(file, g) ==
  IF ~file.opens THEN [g EXCEPT !.ok = FALSE]
  ELSE LET version == ReadU32(file, 0)
       IN  CASE version = MAKEFOURCC(PMG_VERSION_0x13, 103, 109, 80) -> loadModel0x13(file, g)
             [] version = MAKEFOURCC(PMG_VERSION_0x14, 103, 109, 80) -> loadModel0x14(file, g)
             [] OTHER -> [g EXCEPT !.ok = FALSE]

(***************************************************************************)
(* The Model aggregate: its members, and the position inside Model::load.  *)
(***************************************************************************)
VARIABLES
  pc,               \* "idle", or the next call Model::load makes
  arg,              \* the filePath argument of the load in progress
  ret,              \* the value the last finished load returned: "none", "true", "false"
  steps,            \* the calls the current (or last) load has made, with their results
  loads,            \* the number of load calls so far
  out,              \* what the last saveToMidFormat did
  pmdRead, pmgRead, \* the descriptor and geometry files the current (or last) load read
  m_loaded, m_filePath, m_directory, m_fileName,
  m_bones, m_locators, m_parts, m_pieces, m_looks, m_variants,
  m_vertCount, m_triangleCount, m_skinVertCount, m_materialCount,
  m_prefab, m_collision

inputs == <<pmdRead, pmgRead>>
control == <<pc, arg, ret, steps, loads, out, inputs>>
paths == <<m_filePath, m_directory, m_fileName>>
geometry == <<m_bones, m_locators, m_parts, m_pieces, m_vertCount, m_triangleCount,
              m_skinVertCount>>
descriptor == <<m_looks, m_variants, m_materialCount>>
companions == <<m_prefab, m_collision>>
vars == <<control, m_loaded, paths, geometry, descriptor, companions>>

\* The logical paths a caller loads.
Paths == {"/a/truck", "/b/crane"}

\* What the file system holds for a companion extension: nothing, a file the
\* collaborator loads, or a file whose load fails.
CompanionFiles == {"absent", "loads", "fails"}

\* An empty std::shared_ptr, and one owning the collaborator object that load
\* call number `born` created and whose own load returned `ok`.
NoObject == [held |-> FALSE, born |-> 0, ok |-> FALSE]
Object(born, ok) == [held |-> TRUE, born |-> born, ok |-> ok]

Step(call, ok) == [call |-> call, ok |-> ok]
\* The contents of a geometry artifact (.pim) and of a traits artifact (.pit)
\* that was not written.
NoPim == [pieces |-> <<>>, skin |-> <<>>, outOfRange |-> FALSE]
NoPit == [variants |-> <<>>, outOfRange |-> FALSE]
NoOutput == [calls |-> <<>>, pim |-> FALSE, pit |-> FALSE, pis |-> FALSE,
             pimFile |-> NoPim, pitFile |-> NoPit]

\* A Model as constructed: empty containers, zero counters, not loaded, no
\* companion objects.
Init ==
  /\ pc = "idle" /\ arg = "" /\ ret = "none" /\ steps = <<>> /\ loads = 0
  /\ out = NoOutput
  /\ pmdRead = PmdMissing /\ pmgRead = PmgMissing
  /\ m_loaded = FALSE
  /\ m_filePath = "" /\ m_directory = "" /\ m_fileName = ""
  /\ m_bones = <<>> /\ m_locators = <<>> /\ m_parts = <<>> /\ m_pieces = <<>>
  /\ m_looks = <<>> /\ m_variants = <<>>
  /\ m_vertCount = 0 /\ m_triangleCount = 0 /\ m_skinVertCount = 0 /\ m_materialCount = 0
  /\ m_prefab = NoObject /\ m_collision = NoObject

\* destroy with the clear of the variants left out.
destroyKeepsVariants ==
  /\ m_bones' = <<>> /\ m_locators' = <<>> /\ m_parts' = <<>> /\ m_pieces' = <<>>
  /\ m_looks' = <<>>
  /\ m_vertCount' = 0 /\ m_triangleCount' = 0 /\ m_skinVertCount' = 0
  /\ m_materialCount' = 0
  /\ m_loaded' = FALSE
  /\ m_filePath' = "" /\ m_fileName' = ""
  /\ UNCHANGED <<m_variants, m_directory, companions>>

\* destroy with the reset of the vertex counter left out.
destroyKeepsVertCount ==
  /\ m_bones' = <<>> /\ m_locators' = <<>> /\ m_parts' = <<>> /\ m_pieces' = <<>>
  /\ m_looks' = <<>> /\ m_variants' = <<>>
  /\ m_triangleCount' = 0 /\ m_skinVertCount' = 0
  /\ m_materialCount' = 0
  /\ m_loaded' = FALSE
  /\ m_filePath' = "" /\ m_fileName' = ""
  /\ UNCHANGED <<m_vertCount, m_directory, companions>>

\* Model::destroy (lines 90-107), as an assignment to the primed members.
destroy ==
  /\ m_bones' = <<>> /\ m_locators' = <<>> /\ m_parts' = <<>> /\ m_pieces' = <<>>
  /\ m_looks' = <<>> /\ m_variants' = <<>>
  /\ m_vertCount' = 0 /\ m_triangleCount' = 0 /\ m_skinVertCount' = 0
  /\ m_materialCount' = 0
  /\ m_loaded' = FALSE
  /\ m_filePath' = "" /\ m_fileName' = ""
  /\ UNCHANGED <<m_directory, companions>>

\* A caller destroys the Model.
Destroy ==
  /\ pc = "idle"
  /\ destroy
  /\ UNCHANGED control

\* Model::load, lines 111-112: entry, and destroy() when already loaded.
LoadEnter ==
  /\ pc = "idle" /\ loads < MaxLoads
  /\ \E filePath \in Paths : arg' = filePath
  /\ loads' = loads + 1
  /\ pc' = "paths" /\ ret' = "none" /\ out' = NoOutput
  /\ pmdRead' = PmdMissing /\ pmgRead' = PmgMissing
  /\ IF m_loaded
     THEN destroy /\ steps' = <<Step("destroy", TRUE)>>
     ELSE /\ steps' = <<>>
          /\ UNCHANGED <<m_loaded, paths, geometry, descriptor, companions>>

\* Model::load, lines 114-116.
LoadSetPaths ==
  /\ pc = "paths"
  /\ m_filePath' = arg
  /\ m_directory' = Directory(arg)
  /\ m_fileName' = SubStrFrom(arg, Len(Directory(arg)) + 1)
  /\ pc' = "descriptor"
  /\ UNCHANGED <<arg, ret, steps, loads, out, inputs, m_loaded, geometry, descriptor, companions>>

\* Model::load, line 118: loadDescriptor() on the file the path names now.
LoadDescriptorStep(files) ==
  /\ pc = "descriptor"
  /\ \E file \in files :
     \E r \in {loadDescriptor(file, m_directory, m_materialCount, m_looks, m_variants)} :
           /\ pmdRead' = file
           /\ m_materialCount' = r.materialCount
           /\ m_looks' = r.looks
           /\ m_variants' = r.variants
           /\ steps' = Append(steps, Step("loadDescriptor", r.ok))
           /\ IF r.ok THEN pc' = "geometry" /\ ret' = ret
                      ELSE pc' = "idle" /\ ret' = "false"
  /\ UNCHANGED <<arg, loads, out, pmgRead, m_loaded, paths, geometry, companions>>

\* The decoder loadModel dispatches to for a file, as a step name.
DecoderOf(file) ==
  IF ~file.opens THEN "loadModel"
  ELSE IF file.tag = Tag0x13 THEN "loadModel0x13"
  ELSE IF file.tag = Tag0x14 THEN "loadModel0x14"
  ELSE "loadModel"

\* The geometry step without the early return: a failed loadModel is followed
\* by the companion steps.
LoadModelStepNoReturn(files) ==
  /\ pc = "geometry"
  /\ \E file \in files :
     \E r \in {loadModel(file, GeometryOf(TRUE, m_pieces, m_bones, m_locators, m_parts,
                                           m_vertCount, m_triangleCount, m_skinVertCount))} :
           /\ pmgRead' = file
           /\ m_pieces' = r.pieces /\ m_bones' = r.bones /\ m_locators' = r.locators
           /\ m_parts' = r.parts
           /\ m_vertCount' = r.vertCount /\ m_triangleCount' = r.triangleCount
           /\ m_skinVertCount' = r.skinVertCount
           /\ steps' = Append(steps, Step(DecoderOf(file), r.ok))
           /\ pc' = "prefab" /\ ret' = ret
  /\ UNCHANGED <<arg, loads, out, pmdRead, m_loaded, paths, descriptor, companions>>

\* Model::load, line 119: loadModel().
LoadModelStep(files) ==
  /\ pc = "geometry"
  /\ \E file \in files :
     \E r \in {loadModel(file, GeometryOf(TRUE, m_pieces, m_bones, m_locators, m_parts,
                                           m_vertCount, m_triangleCount, m_skinVertCount))} :
           /\ pmgRead' = file
           /\ m_pieces' = r.pieces /\ m_bones' = r.bones /\ m_locators' = r.locators
           /\ m_parts' = r.parts
           /\ m_vertCount' = r.vertCount /\ m_triangleCount' = r.triangleCount
           /\ m_skinVertCount' = r.skinVertCount
           /\ steps' = Append(steps, Step(DecoderOf(file), r.ok))
           /\ IF r.ok THEN pc' = "prefab" /\ ret' = ret
                      ELSE pc' = "idle" /\ ret' = "false"
  /\ UNCHANGED <<arg, loads, out, pmdRead, m_loaded, paths, descriptor, companions>>

\* Model::load, lines 121-128: the prefab companion.
LoadPrefabStep ==
  /\ pc = "prefab"
  /\ \E ppd \in CompanionFiles :
       IF ppd = "absent"
       THEN UNCHANGED <<m_prefab, steps>>
       ELSE /\ m_prefab' = IF ppd = "loads" THEN Object(loads, TRUE) ELSE NoObject
            /\ steps' = Append(steps, Step("Prefab::load", ppd = "loads"))
  /\ pc' = "collision"
  /\ UNCHANGED <<arg, ret, loads, out, inputs, m_loaded, paths, geometry, descriptor, m_collision>>

\* Model::loadCollision (lines 672-680), called from line 130.
loadCollision(pmc) ==
  IF pmc = "absent"
  THEN UNCHANGED <<m_collision, steps>>
  ELSE /\ m_collision' = Object(loads, pmc = "loads")
       /\ steps' = Append(steps, Step("Collision::load", pmc = "loads"))

LoadCollisionStep ==
  /\ pc = "collision"
  /\ \E pmc \in CompanionFiles : loadCollision(pmc)
  /\ pc' = "loaded"
  /\ UNCHANGED <<arg, ret, loads, out, inputs, m_loaded, paths, geometry, descriptor, m_prefab>>

\* Model::load, lines 132-133.
LoadFinish ==
  /\ pc = "loaded"
  /\ m_loaded' = TRUE
  /\ steps' = Append(steps, Step("loaded", TRUE))
  /\ pc' = "idle" /\ ret' = "true"
  /\ UNCHANGED <<arg, loads, out, inputs, paths, geometry, descriptor, companions>>

\* The values a read outside an array or a vector can yield.
UndefinedReads == {0, 1}
\* The values to choose from in an export: one when it makes no such read.
UndefinedReadsOf(pimFile, pitFile) ==
  IF pimFile.outOfRange \/ pitFile.outOfRange THEN UndefinedReads ELSE {0}

\* Model::saveToPim, the Stream sub-blocks of a Piece block (lines 750-862), by
\* their tags, in the order written.
StreamTags(piece) ==
  (IF piece.m_position THEN <<"_POSITION">> ELSE <<>>)
  \o (IF piece.m_normal THEN <<"_NORMAL">> ELSE <<>>)
  \o (IF piece.m_tangent THEN <<"_TANGENT">> ELSE <<>>)
  \o (IF piece.m_texcoord
      THEN [j \in 1..piece.m_texcoordCount |-> "_UV" \o SubSeq("0123456789", j, j)]
      ELSE <<>>)
  \o (IF piece.m_color THEN <<"_RGBA">> ELSE <<>>)

\* Model::saveToPim, one Piece block (lines 732-881).
PimPiece(piece) ==
  [Index |-> piece.m_index, Material |-> piece.m_material,
   VertexCount |-> Len(piece.m_vertices), TriangleCount |-> Len(piece.m_triangles),
   StreamCount |-> piece.m_streamCount, Streams |-> StreamTags(piece)]

\* Model::saveToPim, the weight loops of one vertex (lines 979-1004): slot k is
\* read for every k below the piece's m_bones; a slot at or beyond the
\* capacity of the arrays is outside them, and its read yields `beyond`.
SkinSlotsRead(piece) == 0..(piece.m_bones - 1)
SkinSlotWeight(vert, k, beyond) == IF k < BONE_COUNT THEN vert.m_boneWeight[k + 1] ELSE beyond
SkinWeights(piece, vert, beyond) ==
  Cardinality({k \in SkinSlotsRead(piece) : SkinSlotWeight(vert, k, beyond) # 0})

\* The Skin block written whenever the Model has bones, with no item.
PimSkinWhenBones(beyond) ==
  IF Len(m_bones) > 0 THEN << [ItemCount |-> 0, TotalWeightCount |-> 0] >> ELSE <<>>

\* Model::saveToPim, the pieces whose vertices the Skin block lists (lines
\* 964-969), and the Skin blocks written (lines 956-1039): none or one.
SkinPieces == {i \in DOMAIN m_pieces : m_pieces[i].m_bones # 0}
PimSkin(beyond) ==
  IF m_skinVertCount > 0
  THEN << [ItemCount |-> SumSeq([i \in DOMAIN m_pieces |->
                                   IF i \in SkinPieces THEN Len(m_pieces[i].m_vertices) ELSE 0]),
           TotalWeightCount |->
             SumSeq([i \in DOMAIN m_pieces |->
                       IF i \in SkinPieces
                       THEN SumSeq([j \in DOMAIN m_pieces[i].m_vertices |->
                                      SkinWeights(m_pieces[i], m_pieces[i].m_vertices[j], beyond)])
                       ELSE 0])] >>
  ELSE <<>>
\* Whether the Skin block reads a bone slot outside the arrays of a vertex.
PimOutOfRange ==
  /\ m_skinVertCount > 0
  /\ \E i \in SkinPieces :
       /\ m_pieces[i].m_vertices # <<>>
       /\ \E k \in SkinSlotsRead(m_pieces[i]) : k >= BONE_COUNT

\* What Model::saveToPim writes (lines 692-1040).
PimArtifact(beyond) ==
  [pieces |-> [i \in DOMAIN m_pieces |-> PimPiece(m_pieces[i])],
   skin |-> PimSkin(beyond),
   outOfRange |-> PimOutOfRange]

\* What Model::saveToPit writes for the variants (lines 1093-1120): for each
\* variant, the AttributeCount of its entry j for every j below the Model's
\* part count; an entry the variant does not have is read outside its vector.
PitArtifact(beyond) ==
  [variants |-> [i \in DOMAIN m_variants |->
                   [j \in DOMAIN m_parts |->
                      IF j <= Len(m_variants[i].m_parts)
                      THEN Len(m_variants[i].m_parts[j].m_attributes)
                      ELSE beyond]],
   outOfRange |-> \E i \in DOMAIN m_variants : Len(m_parts) > Len(m_variants[i].m_parts)]

\* Model::saveToMidFormat (lines 1195-1207): the three text artifacts, then the
\* collision and prefab artifacts of the objects the Model holds.  `opens` are
\* the artifacts whose output file can be opened.
saveToPim(opens) == "pim" \in opens
saveToPit(opens) == "pit" \in opens
saveToPis(opens) == IF Len(m_bones) = 0 THEN FALSE ELSE "pis" \in opens
\* An export that stops at the first artifact whose file cannot be opened.
SaveToMidFormatStopsAtFailure ==
  /\ pc = "idle"
  /\ \E opens \in SUBSET {"pim", "pit", "pis"} :
       out' = [calls |-> <<"saveToPim">>
                         \o (IF saveToPim(opens) THEN <<"saveToPit">> ELSE <<>>)
                         \o (IF saveToPim(opens) /\ saveToPit(opens)
                             THEN <<"saveToPis">> ELSE <<>>),
               pim |-> saveToPim(opens),
               pit |-> saveToPim(opens) /\ saveToPit(opens),
               pis |-> saveToPim(opens) /\ saveToPit(opens) /\ saveToPis(opens),
               pimFile |-> IF saveToPim(opens) THEN PimArtifact(0) ELSE NoPim,
               pitFile |-> IF saveToPim(opens) /\ saveToPit(opens)
                           THEN PitArtifact(0) ELSE NoPit]
  /\ UNCHANGED <<pc, arg, ret, steps, loads, inputs, m_loaded, paths, geometry, descriptor, companions>>

SaveToMidFormat ==
  /\ pc = "idle"
  /\ \E opens \in SUBSET {"pim", "pit", "pis"} :
     \E beyond \in UndefinedReadsOf(IF saveToPim(opens) THEN PimArtifact(0) ELSE NoPim,
                                      IF saveToPit(opens) THEN PitArtifact(0) ELSE NoPit) :
       out' = [calls |-> <<"saveToPim", "saveToPit", "saveToPis">>
                         \o (IF m_collision.held THEN <<"saveToPic">> ELSE <<>>)
                         \o (IF m_prefab.held THEN <<"saveToPip">> ELSE <<>>),
               pim |-> saveToPim(opens), pit |-> saveToPit(opens), pis |-> saveToPis(opens),
               pimFile |-> IF saveToPim(opens) THEN PimArtifact(beyond) ELSE NoPim,
               pitFile |-> IF saveToPit(opens) THEN PitArtifact(beyond) ELSE NoPit]
  /\ UNCHANGED <<pc, arg, ret, steps, loads, inputs, m_loaded, paths, geometry, descriptor, companions>>

\* The load / destroy / export life cycle over a few descriptor and geometry
\* files.
Next ==
  \/ LoadEnter
  \/ LoadSetPaths
  \/ LoadDescriptorStep(PmdFilesSome)
  \/ LoadModelStep(PmgFilesSome)
  \/ LoadPrefabStep
  \/ LoadCollisionStep
  \/ LoadFinish
  \/ Destroy
  \/ SaveToMidFormat

Spec == Init /\ [][Next]_vars

\* The same life cycle over every descriptor file.
NextDescriptor ==
  \/ LoadEnter
  \/ LoadSetPaths
  \/ LoadDescriptorStep(PmdFiles)
  \/ LoadModelStep(PmgFilesFew)
  \/ LoadPrefabStep
  \/ LoadCollisionStep
  \/ LoadFinish
  \/ Destroy
  \/ SaveToMidFormat

SpecDescriptor == Init /\ [][NextDescriptor]_vars

\* The same life cycle over every geometry file.
NextGeometry ==
  \/ LoadEnter
  \/ LoadSetPaths
  \/ LoadDescriptorStep(PmdFilesFew)
  \/ LoadModelStep(PmgFiles)
  \/ LoadPrefabStep
  \/ LoadCollisionStep
  \/ LoadFinish
  \/ Destroy
  \/ SaveToMidFormat

SpecGeometry == Init /\ [][NextGeometry]_vars

\* The same life cycle over the geometry files whose export is examined.
NextExport ==
  \/ LoadEnter
  \/ LoadSetPaths
  \/ LoadDescriptorStep(PmdFilesFew)
  \/ LoadModelStep(PmgFilesExport)
  \/ LoadPrefabStep
  \/ LoadCollisionStep
  \/ LoadFinish
  \/ Destroy
  \/ SaveToMidFormat

SpecExport == Init /\ [][NextExport]_vars

(***************************************************************************)
(* Properties of the load life cycle.                                      *)
(***************************************************************************)
\* The geometry members hold what a decoder of the current (or last) load
\* left: loadModel has returned true and no destroy has run since.
GeometryDecoded == pc \in {"prefab", "collision", "loaded"} \/ m_loaded

\* C1: when the first load of a Model reads a valid descriptor and then a
\* geometry file whose 4-byte tag is not recognized, load returns false and
\* the Model is as it was before the load: not loaded, the six containers
\* empty and the four counts zero.
C1_RejectedTagLeavesModelUnpopulated ==
  ( /\ loads = 1 /\ pc = "idle" /\ ret = "false"
    /\ steps = <<Step("loadDescriptor", TRUE), Step("loadModel", FALSE)>>
    /\ pmgRead.opens /\ pmgRead.tag \notin {Tag0x13, Tag0x14} )
  => /\ ~m_loaded
     /\ m_bones = <<>> /\ m_locators = <<>> /\ m_parts = <<>> /\ m_pieces = <<>>
     /\ m_looks = <<>> /\ m_variants = <<>>
     /\ m_vertCount = 0 /\ m_triangleCount = 0 /\ m_skinVertCount = 0
     /\ m_materialCount = 0

\* C2: the calls of a load are made in the order destroy, loadDescriptor,
\* the geometry decoder the tag selects, Prefab::load, Collision::load, set
\* loaded; a failed loadDescriptor or loadModel is the last call of its load,
\* which returns false with loaded false; a later call is made only after
\* both have succeeded; and a load returns true, with loaded set, exactly
\* when both have succeeded.  Stated of the state every step leads to.
C2_LoadRunsItsStepsInOrder ==
  [][ LET rank(c) == CASE c = "destroy" -> 0
                       [] c = "loadDescriptor" -> 1
                       [] c \in {"loadModel", "loadModel0x13", "loadModel0x14"} -> 2
                       [] c = "Prefab::load" -> 3
                       [] c = "Collision::load" -> 4
                       [] c = "loaded" -> 5
          succeeded(k) == \E i \in DOMAIN steps' : rank(steps'[i].call) = k /\ steps'[i].ok
      IN  /\ \A i, j \in DOMAIN steps' :
               i < j => rank(steps'[i].call) < rank(steps'[j].call)
          /\ \A i \in DOMAIN steps' :
               /\ steps'[i].call = "loadModel0x13" => pmgRead'.opens /\ pmgRead'.tag = Tag0x13
               /\ steps'[i].call = "loadModel0x14" => pmgRead'.opens /\ pmgRead'.tag = Tag0x14
               /\ steps'[i].call = "loadModel"
                    => ~pmgRead'.opens \/ pmgRead'.tag \notin {Tag0x13, Tag0x14}
               /\ (rank(steps'[i].call) \in {1, 2} /\ ~steps'[i].ok)
                    => i = Len(steps') /\ pc' = "idle" /\ ret' = "false"
               /\ rank(steps'[i].call) >= 2 => succeeded(1)
               /\ rank(steps'[i].call) >= 3 => succeeded(2)
          /\ ret' = "false" => ~m_loaded'
          /\ ret' = "true" <=> \E i \in DOMAIN steps' : steps'[i].call = "loaded"
          /\ (ret' # ret /\ ret' # "none")
               => /\ ret' = "true" <=> m_loaded'
                  /\ ret' = "true" <=> succeeded(1) /\ succeeded(2) ]_vars

\* A reload has made every call of a load, companions included, and returned
\* true.
C2_Witness ==
  /\ pc = "idle" /\ ret = "true" /\ m_loaded
  /\ Len(steps) = 6
  /\ steps[1].call = "destroy" /\ steps[3].call = "loadModel0x14"
  /\ steps[4].call = "Prefab::load" /\ steps[5].call = "Collision::load"

\* C3: a load of a loaded Model runs destroy first, and in the state destroy
\* leaves, before the load writes any member, the six containers are empty,
\* the four counts are 0, loaded is false and the path members are empty.
C3_ReloadDestroysFirst ==
  [][ (pc = "idle" /\ pc' = "paths" /\ m_loaded)
      => /\ steps' = <<Step("destroy", TRUE)>>
         /\ m_bones' = <<>> /\ m_locators' = <<>> /\ m_parts' = <<>> /\ m_pieces' = <<>>
         /\ m_looks' = <<>> /\ m_variants' = <<>>
         /\ m_vertCount' = 0 /\ m_triangleCount' = 0 /\ m_skinVertCount' = 0
         /\ m_materialCount' = 0
         /\ ~m_loaded'
         /\ m_filePath' = "" /\ m_fileName' = "" ]_vars

\* The second load of a Model, just after its destroy and before its path
\* members are set: the Model was loaded from a directory before.
C3_Witness ==
  /\ pc = "paths" /\ steps = <<Step("destroy", TRUE)>> /\ loads = 2
  /\ m_directory # "" /\ m_filePath = ""
  /\ m_pieces = <<>> /\ m_variants = <<>>

\* C4: a companion file that exists but fails to load does not fail the load,
\* and the loaded Model holds no object for it, so that saveToMidFormat makes
\* no saveToPip (prefab) or saveToPic (collision) call for it.
C4_FailedCompanionIsNotHeld ==
  \A i \in DOMAIN steps :
    /\ (steps[i].call = "Prefab::load" /\ ~steps[i].ok)
         => /\ pc = "idle" => ret = "true"
            /\ m_loaded => /\ ~m_prefab.held
                           /\ \A n \in DOMAIN out.calls : out.calls[n] # "saveToPip"
    /\ (steps[i].call = "Collision::load" /\ ~steps[i].ok)
         => /\ pc = "idle" => ret = "true"
            /\ m_loaded => /\ ~m_collision.held
                           /\ \A n \in DOMAIN out.calls : out.calls[n] # "saveToPic"

\* C5: after the descriptor decode of the first load of a Model, every part of
\* every variant holds one attribute per integer-typed definition of its
\* [m_from, m_to) range and none for the others: to - from less the number of
\* definitions of another type.
C5_NonIntegerAttributesAreSkipped ==
  (loads = 1 /\ \E n \in DOMAIN steps : steps[n] = Step("loadDescriptor", TRUE))
  => \A i \in DOMAIN m_variants :
       \A j \in DOMAIN m_variants[i].m_parts :
         LET link == AttribLinks[j]
             others == {k \in link.m_from..(link.m_to - 1) : AttribDefs[k + 1].m_type # 0}
         IN  Len(m_variants[i].m_parts[j].m_attributes)
               = (link.m_to - link.m_from) - Cardinality(others)

(***************************************************************************)
(* Properties of the descriptor and geometry decoders.                     *)
(***************************************************************************)
\* C6: in every look, the material of slot k carries the alias of the first
\* look's material of slot k, whatever file the look's own material names;
\* the first look's alias is the one generated from its first texture name,
\* or from the slot position alone when it has no texture.
C6_LooksShareFirstLookAliases ==
  \A i \in DOMAIN m_looks :
    /\ Len(m_looks[i].m_materials) = m_materialCount
    /\ \A k \in DOMAIN m_looks[i].m_materials :
         /\ m_looks[i].m_materials[k].m_alias = m_looks[1].m_materials[k].m_alias
         /\ i = 1 => m_looks[1].m_materials[k].m_alias
                       = GeneratedAlias(m_looks[1].m_materials[k], k - 1)

\* Two looks of two slots each are decoded; the second look's material of the
\* first slot names another file, with another first texture, than the first
\* look's, whose alias comes from its texture name.
C6_Witness ==
  /\ \E n \in DOMAIN steps : steps[n] = Step("loadDescriptor", TRUE)
  /\ Len(m_looks) = 2 /\ m_materialCount = 2
  /\ m_looks[1].m_materials[1].m_alias = "mat_0000_wood"
  /\ m_looks[2].m_materials[1].m_file # m_looks[1].m_materials[1].m_file
  /\ GeneratedAlias(m_looks[2].m_materials[1], 0) # m_looks[1].m_materials[1].m_alias

\* C7: whenever the Model is loaded, its vertex count is the sum of the
\* numbers of vertices of its pieces, whatever loads came before.
C7_VertCountIsSumOfPieceVertices ==
  m_loaded =>
    m_vertCount = SumSeq([n \in DOMAIN m_pieces |-> Len(m_pieces[n].m_vertices)])

\* A loaded Model was reloaded from a file with two pieces.
C7_Witness ==
  /\ m_loaded /\ loads = 2 /\ steps[1].call = "destroy"
  /\ Len(m_pieces) = 2 /\ m_vertCount > 2

\* C8 (as the code has it): after a geometry decode, every piece holds
\* edgeCount \div 3 triangles, and the triangle count is the sum over the
\* pieces of edgeCount \div 3.
C8_TriangleCountIsSumOfPieceTriangles ==
  GeometryDecoded =>
    /\ Len(m_pieces) = Len(pmgRead.kinds)
    /\ \A n \in DOMAIN m_pieces :
         Len(m_pieces[n].m_triangles) = pmgRead.kinds[n].m_edges \div 3
    /\ m_triangleCount
         = SumSeq([n \in DOMAIN m_pieces |-> pmgRead.kinds[n].m_edges \div 3])

\* C8 (as stated): the triangle count is the total of the declared edge
\* counts, divided by 3.
C8_TriangleCountIsTotalEdgesOver3 ==
  GeometryDecoded =>
    /\ \A n \in DOMAIN m_pieces :
         Len(m_pieces[n].m_triangles) = pmgRead.kinds[n].m_edges \div 3
    /\ m_triangleCount
         = SumSeq([n \in DOMAIN m_pieces |-> pmgRead.kinds[n].m_edges]) \div 3

\* Two pieces are decoded whose edge counts are no multiples of 3 and add up
\* to one more triangle than the pieces hold.
C8_Witness ==
  /\ GeometryDecoded /\ Len(m_pieces) = 2
  /\ \A n \in 1..2 : pmgRead.kinds[n].m_edges % 3 # 0
  /\ (pmgRead.kinds[1].m_edges + pmgRead.kinds[2].m_edges) \div 3
       > Len(m_pieces[1].m_triangles) + Len(m_pieces[2].m_triangles)

\* C9: after a geometry decode, the skinned-vertex count is the sum of the
\* numbers of vertices of the pieces whose bone-influence width (the piece's
\* bone count in version 1, the header's weight width in version 2) is not
\* zero.
C9_SkinVertCountIsSumOfSkinnedPieceVertices ==
  GeometryDecoded =>
    LET width(n) == IF pmgRead.tag = Tag0x13 THEN pmgRead.kinds[n].m_bone_count
                    ELSE pmgRead.m_weight_width
    IN  /\ \A n \in DOMAIN m_pieces : m_pieces[n].m_bones = width(n)
        /\ m_skinVertCount
             = SumSeq([n \in DOMAIN m_pieces |->
                         IF width(n) # 0 THEN Len(m_pieces[n].m_vertices) ELSE 0])

\* A piece of width zero and a piece of nonzero width are decoded together.
C9_Witness ==
  /\ GeometryDecoded /\ Len(m_pieces) = 2
  /\ m_pieces[1].m_bones = 0 /\ m_pieces[2].m_bones # 0
  /\ m_skinVertCount = Len(m_pieces[2].m_vertices)
  /\ Len(m_pieces[1].m_vertices) > 0

\* C10: after a version-2 decode, for every vertex of a piece that has both
\* the bone-index and the bone-weight stream, bone slot k < 4 holds the byte
\* at address k of the vertex's packed index word, resp. weight word (the
\* least significant byte first, on the little-endian host), and every slot
\* from 4 on holds index -1 and weight 0.
C10_PackedBoneBytesAreLeastSignificantFirst ==
  (GeometryDecoded /\ pmgRead.tag = Tag0x14) =>
    \A n \in DOMAIN m_pieces :
      \E piece \in {PieceRecords(pmgRead)[n]} :
        (piece.m_vert_bone_index_offset # -1 /\ piece.m_vert_bone_weight_offset # -1) =>
          \A j \in DOMAIN m_pieces[n].m_vertices :
            LET vert == m_pieces[n].m_vertices[j]
                indexes == piece.m_vert_bone_index_offset + PoolSize0x14(piece) * (j - 1)
                weights == piece.m_vert_bone_weight_offset + PoolSize0x14(piece) * (j - 1)
            IN  /\ \A k \in 0..3 :
                     /\ vert.m_boneIndex[k + 1] % 256 = BufferByte(pmgRead, indexes + k)
                     /\ vert.m_boneWeight[k + 1] % 256 = BufferByte(pmgRead, weights + k)
                /\ \A k \in 4..(BONE_COUNT - 1) :
                     vert.m_boneIndex[k + 1] = -1 /\ vert.m_boneWeight[k + 1] = 0

\* A version-2 vertex whose packed index word is 0x04030201 holds the bone
\* indices 1, 2, 3, 4 in its first four slots; another vertex has an index
\* byte above 127.
C10_Witness ==
  /\ GeometryDecoded /\ pmgRead.tag = Tag0x14
  /\ \E n \in DOMAIN m_pieces :
       \E piece \in {PieceRecords(pmgRead)[n]} :
         /\ piece.m_vert_bone_index_offset # -1 /\ piece.m_vert_bone_weight_offset # -1
         /\ ReadU32(pmgRead, piece.m_vert_bone_index_offset) = MAKEFOURCC(1, 2, 3, 4)
         /\ m_pieces[n].m_vertices[1].m_boneIndex
              = <<1, 2, 3, 4>> \o [k \in 1..(BONE_COUNT - 4) |-> -1]
  /\ \E n \in DOMAIN m_pieces :
       \E j \in DOMAIN m_pieces[n].m_vertices :
         \E k \in 1..4 : m_pieces[n].m_vertices[j].m_boneIndex[k] < -1

(***************************************************************************)
(* Properties of the exported artifacts.                                   *)
(***************************************************************************)
\* C11: in a geometry artifact written for a loaded Model, every Piece block
\* holds as many Stream sub-blocks as its StreamCount field declares, one per
\* stream the piece has; a piece with position and normal only declares 2 and
\* holds _POSITION and _NORMAL.
C11_StreamBlocksMatchStreamCount ==
  (m_loaded /\ out.pim) =>
    \A i \in DOMAIN out.pimFile.pieces :
      /\ Len(out.pimFile.pieces[i].Streams) = out.pimFile.pieces[i].StreamCount
      /\ ( /\ m_pieces[i].m_position /\ m_pieces[i].m_normal
           /\ ~m_pieces[i].m_tangent /\ ~m_pieces[i].m_texcoord
           /\ ~m_pieces[i].m_color /\ ~m_pieces[i].m_color2 )
         => out.pimFile.pieces[i].Streams = <<"_POSITION", "_NORMAL">>

\* C12 (as the code has it): the geometry artifact of a loaded Model holds one
\* Skin block when some piece of nonzero bone-influence width has a vertex,
\* and none otherwise.
C12_SkinBlockIffSkinnedVertices ==
  (m_loaded /\ out.pim) =>
    /\ Len(out.pimFile.skin) <= 1
    /\ Len(out.pimFile.skin) = 1
         <=> \E i \in DOMAIN m_pieces :
               m_pieces[i].m_bones # 0 /\ m_pieces[i].m_vertices # <<>>

\* C12 (as stated): the geometry artifact holds one Skin block when some piece
\* has a nonzero bone-influence width, and none otherwise.
C12_SkinBlockIffNonzeroWidth ==
  (m_loaded /\ out.pim) =>
    /\ Len(out.pimFile.skin) <= 1
    /\ Len(out.pimFile.skin) = 1 <=> \E i \in DOMAIN m_pieces : m_pieces[i].m_bones # 0

\* An artifact with a Skin block is written for a Model with a piece of width
\* zero and a piece of nonzero width.
C12_Witness ==
  /\ m_loaded /\ out.pim /\ Len(out.pimFile.skin) = 1
  /\ Len(m_pieces) = 2
  /\ m_pieces[1].m_bones = 0 /\ m_pieces[2].m_bones # 0
  /\ out.pimFile.skin[1].ItemCount = Len(m_pieces[2].m_vertices)

\* C13: an export makes the calls saveToPim, saveToPit, saveToPis, in that
\* order, whatever each of them returns, and an artifact whose file opens is
\* written whether or not the files of the others open.
C13_TextArtifactsAreAllAttempted ==
  out.calls # <<>> =>
    /\ Len(out.calls) >= 3
    /\ SubSeq(out.calls, 1, 3) = <<"saveToPim", "saveToPit", "saveToPis">>
    /\ (m_loaded /\ out.pim) => Len(out.pimFile.pieces) = Len(m_pieces)
    /\ (m_loaded /\ out.pit) => Len(out.pitFile.variants) = Len(m_variants)

\* The geometry artifact could not be opened; the traits and the skeleton
\* artifacts were written all the same.
C13_Witness ==
  /\ m_loaded /\ out.calls # <<>>
  /\ ~out.pim /\ out.pit /\ out.pis
  /\ Len(m_variants) > 0 /\ Len(out.pitFile.variants) = Len(m_variants)

\* The streams of piece record `piece` of a file of version `tag`, each with
\* its base offset (-1 when absent), and the sums of the sizes of the present
\* position/normal/tangent streams and of the present texcoord/color streams.
StreamsOf(tag, piece) ==
  LET v1 == tag = Tag0x13
      uv == IF v1 THEN piece.m_vert_uv_offset ELSE piece.m_vert_texcoord_offset
      width == IF v1 THEN piece.m_uv_channels ELSE piece.m_texcoord_width
      color == IF v1 THEN piece.m_vert_rgba_offset ELSE piece.m_vert_color_offset
      color2 == IF v1 THEN piece.m_vert_rgba2_offset ELSE piece.m_vert_color2_offset
  IN  [position |-> piece.m_vert_position_offset, normal |-> piece.m_vert_normal_offset,
       tangent |-> piece.m_vert_tangent_offset, uv |-> uv, width |-> width,
       color |-> color, color2 |-> color2,
       static |-> (IF piece.m_vert_position_offset # -1 THEN SizeofFloat3 ELSE 0)
                  + (IF piece.m_vert_normal_offset # -1 THEN SizeofFloat3 ELSE 0)
                  + (IF piece.m_vert_tangent_offset # -1 THEN SizeofTangent ELSE 0),
       dynamic |-> (IF uv # -1 THEN SizeofFloat2 * width ELSE 0)
                   + (IF color # -1 THEN SizeofU32 ELSE 0)
                   + (IF color2 # -1 THEN SizeofU32 ELSE 0),
       skinned |-> IF v1 THEN piece.m_bone_count # 0
                   ELSE piece.m_vert_bone_index_offset # -1]

\* Vertex `vert`, the j-th (from 0) of a piece with streams st, holds what the
\* file has at base offset + stride * j for each present stream: `strideS` for
\* position, normal and tangent, `strideD` for the texcoords and the colors;
\* the second color is compared when `withColor2`.
VertexReadAt(file, st, vert, j, strideS, strideD, withColor2) ==
  /\ st.position # -1 => vert.m_position = ReadFloat3(file, st.position + strideS * j)
  /\ st.normal # -1 => vert.m_normal = ReadFloat3(file, st.normal + strideS * j)
  /\ st.tangent # -1 => vert.m_tangent = ReadTangent(file, st.tangent + strideS * j)
  /\ st.uv # -1 =>
       \A k \in 1..st.width :
         vert.m_texcoords[k] = ReadFloat2(file, st.uv + strideD * j + SizeofFloat2 * (k - 1))
  /\ st.color # -1 => vert.m_color = ReadColor(file, st.color + strideD * j)
  /\ (withColor2 /\ st.color2 # -1)
       => vert.m_color2 = ReadColor(file, st.color2 + strideD * j)

C15_SecondColorIsReadFromItsOwnStream ==
  GeometryDecoded =>
    \A n \in DOMAIN m_pieces :
      \E st \in {StreamsOf(pmgRead.tag, PieceRecords(pmgRead)[n])} :
        \E strideD \in {IF pmgRead.tag = Tag0x13
                        THEN (IF st.skinned THEN st.dynamic ELSE st.static + st.dynamic)
                        ELSE st.static + st.dynamic
                             + (IF st.skinned THEN 2 * SizeofU32 ELSE 0)} :
          (st.color # -1 /\ st.color2 # -1) =>
            \A j \in DOMAIN m_pieces[n].m_vertices :
              m_pieces[n].m_vertices[j].m_color2
                = ReadColor(pmgRead, st.color2 + strideD * (j - 1))

(***************************************************************************)
(* Properties of a Model across loads.                                     *)
(***************************************************************************)
\* C16: in a loaded Model every part of every variant holds exactly the
\* attributes the descriptor decode of this load appended, one per definition
\* of the part's [m_from, m_to) range, in order, whatever earlier loads of the
\* same Model did, a load that failed in its geometry step included.
C16_AttributesAreThisLoadsOnly ==
  m_loaded =>
    \A i \in DOMAIN m_variants :
      \A j \in DOMAIN m_variants[i].m_parts :
        m_variants[i].m_parts[j].m_attributes
          = [n \in 1..(AttribLinks[j].m_to - AttribLinks[j].m_from) |->
               LoadAttribute(i - 1, AttribLinks[j].m_from + n - 1)]

\* C17: a loaded Model holds a Prefab only if its last load found a .ppd file
\* at its path, and a Collision only if that load found a .pmc file; without
\* the file, saveToMidFormat makes no saveToPip or saveToPic call, whatever an
\* earlier load of the same Model held.
C17_CompanionsAreThisLoadsOnly ==
  m_loaded =>
    /\ (\A i \in DOMAIN steps : steps[i].call # "Prefab::load")
         => /\ ~m_prefab.held
            /\ \A n \in DOMAIN out.calls : out.calls[n] # "saveToPip"
    /\ (\A i \in DOMAIN steps : steps[i].call # "Collision::load")
         => /\ ~m_collision.held
            /\ \A n \in DOMAIN out.calls : out.calls[n] # "saveToPic"

(***************************************************************************)
(* Properties of the exports of a loaded Model.                            *)
(***************************************************************************)
\* C18: the Skin block of a geometry artifact written for a loaded Model reads,
\* of every vertex of every skinned piece, only the bone slots below
\* BONE_COUNT, the capacity of the vertex's bone arrays, whatever bone count
\* the piece declares.
C18_SkinBlockReadsWithinBoneArrays ==
  (m_loaded /\ out.pim) =>
    /\ ~out.pimFile.outOfRange
    /\ out.pimFile.skin # <<>> =>
         \A i \in SkinPieces :
           m_pieces[i].m_vertices # <<>> =>
             \A k \in SkinSlotsRead(m_pieces[i]) : k < BONE_COUNT

\* C19: in a loaded Model every variant has one part entry per part of the
\* Model, the geometry file's part count, and the traits artifact written for
\* it reads no part entry outside a variant's vector, also when the
\* descriptor's part count differs from the geometry's.
C19_VariantsHaveOneEntryPerPart ==
  m_loaded =>
    /\ \A i \in DOMAIN m_variants : Len(m_variants[i].m_parts) = Len(m_parts)
    /\ out.pit => ~out.pitFile.outOfRange

====
